---- MODULE Spec2Model ----
(***************************************************************************)
(* Model of the staking program of src/src/lib.rs: one entrypoint,         *)
(* process_instruction, dispatching GenerateVault, Stake, Withdraw and     *)
(* Claim over the account store (vault authority, per-staker stake         *)
(* records, token holding accounts) and the cluster clock.                 *)
(*                                                                         *)
(* Widths.  TLC's integers are 32 bits wide, so the program's u64 is       *)
(* modelled as an unsigned word of U64_BITS bits (U64_MAX = 2^U64_BITS-1), *)
(* with the same wrap-or-panic behaviour at the top of the range.  The     *)
(* u128 intermediate of the reward formula is left unbounded: the product  *)
(* amount * elapsed * 250 stays below 2^128 for every elapsed time below   *)
(* 2^55 seconds, and the clock of the model is bounded by MaxTime.         *)
(***************************************************************************)
EXTENDS Integers, FiniteSets, Sequences, TLC

\* ---------------------------------------------------------------- bounds
U64_BITS == 13
TickLen == 100
MaxTime == 200
RewardPool == 4000

U64_MOD == 2 ^ U64_BITS
U64_MAX == U64_MOD - 1
HALF == U64_MOD \div 2

\* ------------------------------------------------------ program constants
REWARD_GENERATE_RATE == 250
RATE_DENOMINATOR == 10000

\* The three hard-coded identities are the same key in the source.
admin == <<"5kuLovV9TxV7784KJd97WHhgXTeuX47t6iyuvyqH6BwV">>
stake_token_mint == <<"5kuLovV9TxV7784KJd97WHhgXTeuX47t6iyuvyqH6BwV">>
reward_token_mint == <<"5kuLovV9TxV7784KJd97WHhgXTeuX47t6iyuvyqH6BwV">>

VAULT_PREFIX == "vault"
STAKE_PREFIX == "stake"

\* Keys of the environment.
alice == <<"alice">>
other_mint == <<"other_mint">>
spl_token_id == <<"spl_token">>
bogus == <<"bogus">>
Wallets == {admin, alice}
Stakers == {alice}
\* What the staker and the vault's holding account hold before the program
\* first runs: <<staker's tokens, reward pool>>.  A pool of 0 is a holding
\* account that does not exist yet.
StartConfigs == {<<1, RewardPool>>, <<1000, RewardPool>>, <<3000, 0>>, <<HALF, 0>>}

\* Pubkey::find_program_address and get_associated_token_address: pure,
\* collision-free functions of their seeds, so a tagged tuple of the seeds.
StakePda(payer_key) == <<STAKE_PREFIX, payer_key>>
vault_pda == <<VAULT_PREFIX>>
Ata(wallet, mint) == <<"ata", wallet, mint>>

\* The token holding accounts whose balances the model tracks: those of the
\* configured token and those of another token type.
Holders == {Ata(w, m) : w \in Wallets \cup {vault_pda}, m \in {stake_token_mint, other_mint}}
VaultHolder == Ata(vault_pda, stake_token_mint)

VARIABLES
    vault_owned,      \* vault authority account is owned by the program
    stake,            \* wallet -> stake record account (owned flag + StakeData)
    token,            \* holding account -> [init, amount]
    now,              \* Clock::get().unix_timestamp
    overflow_checks,  \* build profile: arithmetic overflow panics (TRUE) or wraps
    ideal_amount,     \* history: wallet -> staked minus withdrawn, in exact arithmetic
    withdrew,         \* history: wallet -> some Withdraw of the wallet has succeeded
    epoch,            \* history: wallet -> rewards credited since the last Stake/Withdraw
    uncredited,       \* history: wallet -> reward earned but never credited, in 1/10000 token
    last              \* history: the last instruction and its result

vars == <<vault_owned, stake, token, now, overflow_checks, ideal_amount, withdrew, epoch,
          uncredited, last>>

\* The accounts an instruction can change, as one value.
Store == [vault_owned |-> vault_owned, stake |-> stake, token |-> token]

NoData == [staker |-> <<"none">>, amount |-> 0, remained_reward |-> 0, last_claim_time |-> 0]

\* A handler's outcome: the error code it returns ("Ok" for Ok(())) and the
\* accounts as the handler leaves them when it returns.
Result(code, s) == [code |-> code, store |-> s]

\* ------------------------------------------------- external collaborators

\* system_instruction::transfer of the rent-exempt minimum from the payer:
\* SystemError::ResultWithNegativeLamports (Custom(1)) when the payer cannot pay.
SystemTransfer(funded) == IF funded THEN "Ok" ELSE "0x01"

\* spl_associated_token_account::create_associated_token_account, invoked with
\* wallet_info standing for the wallet and token_info for the token program.
\* The runtime refuses an instruction that names an account the caller did
\* not pass (MissingAccount).
CreateAta(s, holder, wallet, wallet_info, token_info, funded) ==
    IF wallet_info # wallet \/ token_info # spl_token_id
    THEN Result("MissingAccount", s)
    ELSE IF s.token[holder].init
    THEN Result("IllegalOwner", s)
    ELSE IF ~funded
    THEN Result("0x01", s)
    ELSE Result("Ok", [s EXCEPT !.token[holder] = [init |-> TRUE, amount |-> 0]])

\* spl_token transfer of amount from src to dst under authority; owner is
\* the wallet the source holding account belongs to, authorised says whether
\* the authority signed or was derived from the seeds given to invoke_signed.
SplTransfer(s, token_info, src, dst, owner, authority, authorised, amount) ==
    IF token_info # spl_token_id
    THEN Result("IncorrectProgramId", s)
    ELSE IF ~authorised
    THEN Result("PrivilegeEscalation", s)
    ELSE IF ~s.token[src].init \/ ~s.token[dst].init
    THEN Result("InvalidAccountData", s)
    ELSE IF s.token[src].amount < amount
    THEN Result("0x01", s)
    ELSE IF authority # owner
    THEN Result("0x04", s)
    ELSE IF s.token[dst].amount + amount > U64_MAX
    THEN Result("0x0e", s)
    ELSE Result("Ok", [s EXCEPT !.token[src].amount = @ - amount,
                                !.token[dst].amount = @ + amount])

\* ------------------------------------------------------------ arithmetic

\* `x as u64` of a u128 value.
AsU64(x) == x % U64_MOD

\* reward = amount as u128 * (timestamp - last_claim_time) as u128 * RATE / 10000
Reward_RoundsUp(stake_data, timestamp) ==
    (stake_data.amount * (timestamp - stake_data.last_claim_time) * REWARD_GENERATE_RATE
        + RATE_DENOMINATOR - 1) \div RATE_DENOMINATOR
Reward(stake_data, timestamp) ==
    (stake_data.amount * (timestamp - stake_data.last_claim_time) * REWARD_GENERATE_RATE)
        \div RATE_DENOMINATOR

\* (remained_reward as u128 + reward) as u64
Accrue_DropsRemained(stake_data, timestamp) == AsU64(Reward(stake_data, timestamp))
Accrue(stake_data, timestamp) == AsU64(stake_data.remained_reward + Reward(stake_data, timestamp))

\* stake_data.amount += amount on u64: past U64_MAX the build either panics
\* (overflow checks on) or wraps (overflow checks off).
AddOverflows(a, b) == a + b > U64_MAX
AddU64(a, b) == (a + b) % U64_MOD

\* Withdraw's business rule: amount > stake_data.amount is refused.
WithdrawTooMuch_OffByOne(amount, stake_data) == amount > stake_data.amount + 1
WithdrawTooMuch(amount, stake_data) == amount > stake_data.amount

\* ------------------------------------------------------------- handlers
\* An instruction ix carries the accounts in the order the handlers read
\* them (by key) and the payload: op, payer, is_signer, stake_data_info,
\* mint_info, vault_pda_info, vault_pda_mint_holder_info,
\* vault_mint_holder_info, token_info, amount; funded says whether the payer
\* holds the lamports the system and associated-token programs ask for.

\* Stake, the record part: initialise the record or accrue and add.
StakeLedger_KeepsClaimTime(ix, s, timestamp, checks) ==
    LET payer == ix.payer
        acct  == s.stake[payer]
    IN  IF ~acct.owned
        THEN IF SystemTransfer(ix.funded) # "Ok"
             THEN Result(SystemTransfer(ix.funded), s)
             ELSE Result("Ok", [s EXCEPT !.stake[payer] =
                     [owned |-> TRUE,
                      data  |-> [staker |-> payer, amount |-> ix.amount,
                                 remained_reward |-> 0, last_claim_time |-> timestamp]]])
        ELSE LET stake_data == acct.data
             IN  IF payer # stake_data.staker
                 THEN Result("0x36", s)
                 ELSE IF AddOverflows(stake_data.amount, ix.amount) /\ checks
                 THEN Result("Panic", s)
                 ELSE Result("Ok", [s EXCEPT !.stake[payer].data =
                         [staker |-> stake_data.staker,
                          amount |-> AddU64(stake_data.amount, ix.amount),
                          remained_reward |-> Accrue(stake_data, timestamp),
                          last_claim_time |-> stake_data.last_claim_time]])
StakeLedger(ix, s, timestamp, checks) ==
    LET payer == ix.payer
        acct  == s.stake[payer]
    IN  IF ~acct.owned
        THEN IF SystemTransfer(ix.funded) # "Ok"
             THEN Result(SystemTransfer(ix.funded), s)
             ELSE Result("Ok", [s EXCEPT !.stake[payer] =
                     [owned |-> TRUE,
                      data  |-> [staker |-> payer, amount |-> ix.amount,
                                 remained_reward |-> 0, last_claim_time |-> timestamp]]])
        ELSE LET stake_data == acct.data
             IN  IF payer # stake_data.staker
                 THEN Result("0x36", s)
                 ELSE IF AddOverflows(stake_data.amount, ix.amount) /\ checks
                 THEN Result("Panic", s)
                 ELSE Result("Ok", [s EXCEPT !.stake[payer].data =
                         [staker |-> stake_data.staker,
                          amount |-> AddU64(stake_data.amount, ix.amount),
                          remained_reward |-> Accrue(stake_data, timestamp),
                          last_claim_time |-> timestamp]])

\* Stake, the custody part: create the vault holding account when it is not
\* owned by the token program, then move amount from the staker to the vault.
StakeCustody(ix, s) ==
    LET holder == ix.vault_pda_mint_holder_info
        r1 == IF ~(s.token[holder].init /\ ix.token_info = spl_token_id)
              THEN CreateAta(s, holder, vault_pda, ix.vault_pda_info, ix.token_info, ix.funded)
              ELSE Result("Ok", s)
    IN  IF r1.code # "Ok"
        THEN r1
        ELSE SplTransfer(r1.store, ix.token_info, ix.vault_mint_holder_info, holder,
                         ix.payer, ix.payer, ix.is_signer, ix.amount)

ProcessStake_NoMintCheck(ix, s, timestamp, checks) ==
    LET data_address == StakePda(ix.payer)
        vault_pda_mint_holder == Ata(vault_pda, ix.mint_info)
        vault_mint_holder == Ata(ix.payer, ix.mint_info)
    IN  IF ~ix.is_signer THEN Result("0x31", s)
        ELSE IF ix.stake_data_info # data_address THEN Result("0x32", s)
        ELSE IF vault_pda_mint_holder # ix.vault_pda_mint_holder_info THEN Result("0x34", s)
        ELSE IF vault_mint_holder # ix.vault_mint_holder_info THEN Result("0x34", s)
        ELSE LET r == StakeLedger(ix, s, timestamp, checks)
             IN  IF r.code # "Ok" THEN r ELSE StakeCustody(ix, r.store)
ProcessStake(ix, s, timestamp, checks) ==
    LET data_address == StakePda(ix.payer)
        vault_pda_mint_holder == Ata(vault_pda, ix.mint_info)
        vault_mint_holder == Ata(ix.payer, ix.mint_info)
    IN  IF ~ix.is_signer THEN Result("0x31", s)
        ELSE IF ix.stake_data_info # data_address THEN Result("0x32", s)
        ELSE IF ix.mint_info # stake_token_mint THEN Result("0x33", s)
        ELSE IF vault_pda_mint_holder # ix.vault_pda_mint_holder_info THEN Result("0x34", s)
        ELSE IF vault_mint_holder # ix.vault_mint_holder_info THEN Result("0x34", s)
        ELSE LET r == StakeLedger(ix, s, timestamp, checks)
             IN  IF r.code # "Ok" THEN r ELSE StakeCustody(ix, r.store)

\* Withdraw and Claim, the custody part: create the staker's holding account
\* when it is not owned by the token program, then move amount out of the
\* vault holding account under the vault authority's seeds.
ReleaseCustody(ix, s, amount) ==
    LET holder == ix.vault_mint_holder_info
        r1 == IF ~(s.token[holder].init /\ ix.token_info = spl_token_id)
              THEN CreateAta(s, holder, ix.payer, ix.payer, ix.token_info, ix.funded)
              ELSE Result("Ok", s)
    IN  IF r1.code # "Ok"
        THEN r1
        ELSE SplTransfer(r1.store, ix.token_info, ix.vault_pda_mint_holder_info, holder,
                         vault_pda, ix.vault_pda_info, ix.vault_pda_info = vault_pda, amount)

\* Withdraw, the record part.
WithdrawLedger_AccruesOnNewAmount(ix, s, timestamp) ==
    LET payer == ix.payer
        stake_data == s.stake[payer].data
    IN  IF payer # stake_data.staker
        THEN Result("0x47", s)
        ELSE IF WithdrawTooMuch(ix.amount, stake_data)
        THEN Result("0x48", s)
        ELSE Result("Ok", [s EXCEPT !.stake[payer].data =
                [staker |-> stake_data.staker,
                 amount |-> stake_data.amount - ix.amount,
                 remained_reward |->
                     Accrue([stake_data EXCEPT !.amount = @ - ix.amount], timestamp),
                 last_claim_time |-> timestamp]])
WithdrawLedger_ResetsReward(ix, s, timestamp) ==
    LET payer == ix.payer
        stake_data == s.stake[payer].data
    IN  IF payer # stake_data.staker
        THEN Result("0x47", s)
        ELSE IF WithdrawTooMuch(ix.amount, stake_data)
        THEN Result("0x48", s)
        ELSE Result("Ok", [s EXCEPT !.stake[payer].data =
                [staker |-> stake_data.staker,
                 amount |-> stake_data.amount - ix.amount,
                 remained_reward |-> 0,
                 last_claim_time |-> timestamp]])
WithdrawLedger(ix, s, timestamp) ==
    LET payer == ix.payer
        stake_data == s.stake[payer].data
    IN  IF payer # stake_data.staker
        THEN Result("0x47", s)
        ELSE IF WithdrawTooMuch(ix.amount, stake_data)
        THEN Result("0x48", s)
        ELSE Result("Ok", [s EXCEPT !.stake[payer].data =
                [staker |-> stake_data.staker,
                 amount |-> stake_data.amount - ix.amount,
                 remained_reward |-> Accrue(stake_data, timestamp),
                 last_claim_time |-> timestamp]])

ProcessWithdraw_NoOwnerCheck(ix, s, timestamp) ==
    LET data_address == StakePda(ix.payer)
        vault_pda_mint_holder == Ata(vault_pda, ix.mint_info)
        vault_mint_holder == Ata(ix.payer, ix.mint_info)
    IN  IF ~ix.is_signer THEN Result("0x41", s)
        ELSE IF ix.stake_data_info # data_address THEN Result("0x42", s)
        ELSE IF ix.mint_info # stake_token_mint THEN Result("0x44", s)
        ELSE IF vault_pda_mint_holder # ix.vault_pda_mint_holder_info THEN Result("0x45", s)
        ELSE IF vault_mint_holder # ix.vault_mint_holder_info THEN Result("0x45", s)
        ELSE LET r == WithdrawLedger(ix, s, timestamp)
             IN  IF r.code # "Ok" THEN r ELSE ReleaseCustody(ix, r.store, ix.amount)
ProcessWithdraw(ix, s, timestamp) ==
    LET data_address == StakePda(ix.payer)
        vault_pda_mint_holder == Ata(vault_pda, ix.mint_info)
        vault_mint_holder == Ata(ix.payer, ix.mint_info)
    IN  IF ~ix.is_signer THEN Result("0x41", s)
        ELSE IF ix.stake_data_info # data_address THEN Result("0x42", s)
        ELSE IF ~s.stake[ix.payer].owned THEN Result("0x43", s)
        ELSE IF ix.mint_info # stake_token_mint THEN Result("0x44", s)
        ELSE IF vault_pda_mint_holder # ix.vault_pda_mint_holder_info THEN Result("0x45", s)
        ELSE IF vault_mint_holder # ix.vault_mint_holder_info THEN Result("0x45", s)
        ELSE LET r == WithdrawLedger(ix, s, timestamp)
             IN  IF r.code # "Ok" THEN r ELSE ReleaseCustody(ix, r.store, ix.amount)

\* Claim: reward_amount, computed before the record is reset.
RewardAmount_ForgetsRemained(stake_data, timestamp) == AsU64(Reward(stake_data, timestamp))
RewardAmount(stake_data, timestamp) == Accrue(stake_data, timestamp)

\* Claim, the record part.
ClaimLedger_ResetsStaker(ix, s, timestamp) ==
    LET payer == ix.payer
        stake_data == s.stake[payer].data
    IN  IF payer # stake_data.staker
        THEN Result("0x58", s)
        ELSE Result("Ok", [s EXCEPT !.stake[payer].data =
                [staker |-> NoData.staker,
                 amount |-> stake_data.amount,
                 remained_reward |-> 0,
                 last_claim_time |-> timestamp]])
ClaimLedger(ix, s, timestamp) ==
    LET payer == ix.payer
        stake_data == s.stake[payer].data
    IN  IF payer # stake_data.staker
        THEN Result("0x58", s)
        ELSE Result("Ok", [s EXCEPT !.stake[payer].data =
                [staker |-> stake_data.staker,
                 amount |-> stake_data.amount,
                 remained_reward |-> 0,
                 last_claim_time |-> timestamp]])

ProcessClaim_PaysAfterReset(ix, s, timestamp) ==
    LET data_address == StakePda(ix.payer)
        vault_pda_mint_holder == Ata(vault_pda, ix.mint_info)
        vault_mint_holder == Ata(ix.payer, ix.mint_info)
    IN  IF ~ix.is_signer THEN Result("0x51", s)
        ELSE IF ix.stake_data_info # data_address THEN Result("0x52", s)
        ELSE IF ~s.stake[ix.payer].owned THEN Result("0x53", s)
        ELSE IF ix.mint_info # reward_token_mint THEN Result("0x54", s)
        ELSE IF vault_pda_mint_holder # ix.vault_pda_mint_holder_info THEN Result("0x55", s)
        ELSE IF ~(s.token[ix.vault_pda_mint_holder_info].init /\ ix.token_info = spl_token_id)
             THEN Result("0x55", s)
        ELSE IF vault_mint_holder # ix.vault_mint_holder_info THEN Result("0x56", s)
        ELSE LET r == ClaimLedger(ix, s, timestamp)
             IN  IF r.code # "Ok"
                 THEN r
                 ELSE ReleaseCustody(ix, r.store,
                                     RewardAmount(r.store.stake[ix.payer].data, timestamp))
ProcessClaim(ix, s, timestamp) ==
    LET data_address == StakePda(ix.payer)
        vault_pda_mint_holder == Ata(vault_pda, ix.mint_info)
        vault_mint_holder == Ata(ix.payer, ix.mint_info)
    IN  IF ~ix.is_signer THEN Result("0x51", s)
        ELSE IF ix.stake_data_info # data_address THEN Result("0x52", s)
        ELSE IF ~s.stake[ix.payer].owned THEN Result("0x53", s)
        ELSE IF ix.mint_info # reward_token_mint THEN Result("0x54", s)
        ELSE IF vault_pda_mint_holder # ix.vault_pda_mint_holder_info THEN Result("0x55", s)
        ELSE IF ~(s.token[ix.vault_pda_mint_holder_info].init /\ ix.token_info = spl_token_id)
             THEN Result("0x55", s)
        ELSE IF vault_mint_holder # ix.vault_mint_holder_info THEN Result("0x56", s)
        ELSE LET r == ClaimLedger(ix, s, timestamp)
             IN  IF r.code # "Ok"
                 THEN r
                 ELSE ReleaseCustody(ix, r.store,
                                     RewardAmount(s.stake[ix.payer].data, timestamp))

\* GenerateVault: ix.vault_pda_info is the account `pda`.
ProcessGenerateVault_NoOwnerCheck(ix, s) ==
    IF ix.vault_pda_info # vault_pda THEN Result("0x00", s)
    ELSE IF ix.payer # admin \/ ~ix.is_signer THEN Result("0x02", s)
    ELSE IF SystemTransfer(ix.funded) # "Ok" THEN Result(SystemTransfer(ix.funded), s)
    ELSE Result("Ok", [s EXCEPT !.vault_owned = TRUE])
ProcessGenerateVault_AnySigner(ix, s) ==
    IF ix.vault_pda_info # vault_pda THEN Result("0x00", s)
    ELSE IF s.vault_owned THEN Result("0x01", s)
    ELSE IF ~ix.is_signer THEN Result("0x02", s)
    ELSE IF SystemTransfer(ix.funded) # "Ok" THEN Result(SystemTransfer(ix.funded), s)
    ELSE Result("Ok", [s EXCEPT !.vault_owned = TRUE])
ProcessGenerateVault(ix, s) ==
    IF ix.vault_pda_info # vault_pda THEN Result("0x00", s)
    ELSE IF s.vault_owned THEN Result("0x01", s)
    ELSE IF ix.payer # admin \/ ~ix.is_signer THEN Result("0x02", s)
    ELSE IF SystemTransfer(ix.funded) # "Ok" THEN Result(SystemTransfer(ix.funded), s)
    ELSE Result("Ok", [s EXCEPT !.vault_owned = TRUE])

process_instruction(ix, s, timestamp, checks) ==
    CASE ix.op = "Stake" -> ProcessStake(ix, s, timestamp, checks)
      [] ix.op = "Withdraw" -> ProcessWithdraw(ix, s, timestamp)
      [] ix.op = "Claim" -> ProcessClaim(ix, s, timestamp)
      [] ix.op = "GenerateVault" -> ProcessGenerateVault(ix, s)

\* The runtime's rule for an instruction's result (spec section 5, the
\* entrypoint's ProgramResult): Ok commits the accounts as the handler left
\* them, Err discards every change the handler and its invocations made.
Commit_KeepsWrites(pre, r) == r.store
Commit(pre, r) == IF r.code = "Ok" THEN r.store ELSE pre

\* ----------------------------------------------------------- instructions

\* What a client can get wrong in an instruction.
Faults == {"not_signer", "wrong_record", "wrong_mint", "wrong_vault_pda",
           "wrong_vault_holder", "wrong_user_holder", "wrong_token_program", "unfunded"}
VaultFaults == {"not_signer", "wrong_vault_pda", "unfunded"}

OtherWallet(w) == CHOOSE o \in Wallets : o # w

\* The instruction op of payer with the given payload amount, well formed
\* except for the faults in f.
Instruction(op, payer, amount, f) ==
    [op |-> op,
     payer |-> payer,
     is_signer |-> "not_signer" \notin f,
     stake_data_info |-> IF "wrong_record" \in f THEN StakePda(OtherWallet(payer))
                         ELSE StakePda(payer),
     mint_info |-> IF "wrong_mint" \in f THEN other_mint ELSE stake_token_mint,
     vault_pda_info |-> IF "wrong_vault_pda" \in f THEN bogus ELSE vault_pda,
     vault_pda_mint_holder_info |-> IF "wrong_vault_holder" \in f
                                    THEN Ata(payer, stake_token_mint)
                                    ELSE Ata(vault_pda, stake_token_mint),
     vault_mint_holder_info |-> IF "wrong_user_holder" \in f
                                THEN Ata(OtherWallet(payer), stake_token_mint)
                                ELSE Ata(payer, stake_token_mint),
     token_info |-> IF "wrong_token_program" \in f THEN bogus ELSE spl_token_id,
     amount |-> amount,
     funded |-> "unfunded" \notin f,
     faults |-> f]

\* An instruction is well formed or has one fault.
FaultSets(F) == {{}} \cup {{x} : x \in F}
StakerFaultSets == FaultSets(Faults)
VaultFaultSets == FaultSets(VaultFaults)

\* Payload amounts tried in a state: nothing, everything the payer holds
\* (Stake) or has staked (Withdraw), and one unit more than that.
StakeAmounts(payer) ==
    LET held == token[Ata(payer, stake_token_mint)].amount
    IN  {0, held} \cup {x \in {held + 1} : x <= U64_MAX}
WithdrawAmounts(payer) ==
    LET staked == stake[payer].data.amount
    IN  {0, staked} \cup {x \in {staked + 1} : x <= U64_MAX}

\* The instructions tried in a state, per operation.
GenerateVaultIxs ==
    {Instruction("GenerateVault", payer, 0, f) : payer \in Wallets, f \in VaultFaultSets}
StakeIxs ==
    UNION {{Instruction("Stake", payer, amount, f) :
                amount \in StakeAmounts(payer), f \in StakerFaultSets} : payer \in Stakers}
WithdrawIxs ==
    UNION {{Instruction("Withdraw", payer, amount, f) :
                amount \in WithdrawAmounts(payer), f \in StakerFaultSets} : payer \in Stakers}
ClaimIxs ==
    {Instruction("Claim", payer, 0, f) : payer \in Stakers, f \in StakerFaultSets}

NoInstruction == [op |-> "None", code |-> "None", dirty |-> FALSE]

\* History of a constant-stake interval: it starts at the checkpoint t1 of the
\* last successful Stake or Withdraw, with remained_reward = r1; since then
\* Claims have paid out `paid` in total, `cuts` of them after a non-empty
\* sub-interval, and `narrowed` tells whether a payout lost bits to `as u64`.
NoEpoch == [t1 |-> 0, r1 |-> 0, paid |-> 0, cuts |-> 0, narrowed |-> FALSE]

EpochAfter(ix, ok, post) ==
    LET w == ix.payer
        sd == stake[w].data
    IN  IF ok /\ ix.op \in {"Stake", "Withdraw"}
        THEN [epoch EXCEPT ![w] = [t1 |-> now, r1 |-> post.stake[w].data.remained_reward,
                                   paid |-> 0, cuts |-> 0, narrowed |-> FALSE]]
        ELSE IF ok /\ ix.op = "Claim"
        THEN [epoch EXCEPT ![w] =
                [t1 |-> @.t1, r1 |-> @.r1,
                 paid |-> @.paid + post.token[Ata(w, stake_token_mint)].amount
                                 - token[Ata(w, stake_token_mint)].amount,
                 cuts |-> @.cuts + (IF now > sd.last_claim_time THEN 1 ELSE 0),
                 narrowed |-> @.narrowed
                              \/ sd.remained_reward + Reward(sd, now) > U64_MAX]]
        ELSE epoch

\* History of all the intervals of a staker, in units of 1/10000 token: while
\* the clock advances, the amount held earns amount * elapsed * 250 / 10000 in
\* exact arithmetic (EarnedOver); each successful checkpoint (Stake, Withdraw
\* or Claim on an Active record) credits some reward (the growth of
\* remained_reward plus, for a Claim, the payout), which is taken off here.
EarnedOver(elapsed) ==
    [w \in Wallets |-> uncredited[w] + stake[w].data.amount * elapsed * REWARD_GENERATE_RATE]

UncreditedAfter(ix, ok, post) ==
    LET w == ix.payer
        sd == stake[w].data
        own == Ata(w, stake_token_mint)
        credited == post.stake[w].data.remained_reward - sd.remained_reward
                        + (IF ix.op = "Claim"
                           THEN post.token[own].amount - token[own].amount ELSE 0)
    IN  IF ok /\ ix.op \in {"Stake", "Withdraw", "Claim"} /\ stake[w].owned
        THEN [uncredited EXCEPT ![w] = @ - RATE_DENOMINATOR * credited]
        ELSE uncredited

\* ------------------------------------------------------------------ state

InitToken(held, pool) ==
    [h \in Holders |->
        IF h = VaultHolder THEN [init |-> pool > 0, amount |-> pool]
        ELSE IF h = Ata(alice, stake_token_mint) THEN [init |-> TRUE, amount |-> held]
        ELSE IF h = Ata(alice, other_mint) \/ h = Ata(vault_pda, other_mint)
        THEN [init |-> TRUE, amount |-> 1]
        ELSE [init |-> TRUE, amount |-> 0]]

Init ==
    /\ vault_owned = FALSE
    /\ stake = [w \in Wallets |-> [owned |-> FALSE, data |-> NoData]]
    /\ \E c \in StartConfigs : token = InitToken(c[1], c[2])
    /\ now = 0
    /\ overflow_checks \in BOOLEAN
    /\ ideal_amount = [w \in Wallets |-> 0]
    /\ withdrew = [w \in Wallets |-> FALSE]
    /\ epoch = [w \in Wallets |-> NoEpoch]
    /\ uncredited = [w \in Wallets |-> 0]
    /\ last = NoInstruction

\* ---------------------------------------------------------------- actions

\* What executing ix in the current state returns and leaves behind.
Outcome(ix) == process_instruction(ix, Store, now, overflow_checks)

\* One instruction, from dispatch to the runtime's commit or rollback.
Execute(ix) ==
    \E r \in {Outcome(ix)} : \E post \in {Commit(Store, r)} : \E ok \in {r.code = "Ok"} :
        /\ vault_owned' = post.vault_owned
        /\ stake' = post.stake
        /\ token' = post.token
        /\ last' = [op |-> ix.op, code |-> r.code, dirty |-> r.store # Store]
        /\ epoch' = EpochAfter(ix, ok, post)
        /\ uncredited' = UncreditedAfter(ix, ok, post)
        /\ ideal_amount' =
             IF ok /\ ix.op = "Stake"
             THEN [ideal_amount EXCEPT ![ix.payer] = @ + ix.amount]
             ELSE IF ok /\ ix.op = "Withdraw"
             THEN [ideal_amount EXCEPT ![ix.payer] = @ - ix.amount]
             ELSE ideal_amount
        /\ withdrew' =
             IF ok /\ ix.op = "Withdraw"
             THEN [withdrew EXCEPT ![ix.payer] = TRUE]
             ELSE withdrew
        /\ UNCHANGED <<now, overflow_checks>>

GenerateVault == \E ix \in GenerateVaultIxs : ix.op = "GenerateVault" /\ Execute(ix)

Stake == \E ix \in StakeIxs : ix.op = "Stake" /\ Execute(ix)

Withdraw == \E ix \in WithdrawIxs : ix.op = "Withdraw" /\ Execute(ix)

Claim == \E ix \in ClaimIxs : ix.op = "Claim" /\ Execute(ix)

\* The cluster clock moves forward between instructions, never backward.
Tick ==
    /\ now + TickLen <= MaxTime
    /\ now' = now + TickLen
    /\ last' = NoInstruction
    /\ uncredited' = EarnedOver(TickLen)
    /\ UNCHANGED <<vault_owned, stake, token, overflow_checks, ideal_amount, withdrew, epoch>>

Next == GenerateVault \/ Stake \/ Withdraw \/ Claim \/ Tick

Spec == Init /\ [][Next]_vars

\* ------------------------------------------------------------------ claims

\* The faults the account validator of Stake, Withdraw and Claim looks for,
\* ahead of the record and custody parts.
ValidatorFaults == {"not_signer", "wrong_record", "wrong_mint",
                    "wrong_vault_holder", "wrong_user_holder"}
PassesValidator(ix) == ix.faults \cap ValidatorFaults = {}

\* C1: a Withdraw of more than the Active record's amount never succeeds: the
\* handler returns an error without having written anything (0x48 when the
\* instruction passes the account validation that precedes the amount check)
\* and the committed accounts are the ones before it; a successful
\* Withdraw(x) leaves amount = old amount - x, which is >= 0.
C1_WithdrawWithinAmount ==
    \A ix \in WithdrawIxs :
        LET r == Outcome(ix)
            acct == stake[ix.payer]
        IN  /\ (acct.owned /\ ix.amount > acct.data.amount) =>
                /\ r.code # "Ok"
                /\ r.store = Store
                /\ Commit(Store, r) = Store
                /\ (PassesValidator(ix) => r.code = "0x48")
            /\ r.code = "Ok" =>
                /\ Commit(Store, r).stake[ix.payer].data.amount = acct.data.amount - ix.amount
                /\ Commit(Store, r).stake[ix.payer].data.amount >= 0

\* C1 witness: a Withdraw has just failed with 0x48 on an Active record that
\* holds a positive amount.
C1_Witness ==
    /\ last.op = "Withdraw"
    /\ last.code = "0x48"
    /\ stake[alice].owned
    /\ stake[alice].data.amount > 0

\* C2: while no Withdraw of the staker has succeeded, the record's amount is
\* the arithmetic sum of the amounts of the staker's successful Stakes.
C2_AmountIsSumOfStakes ==
    \A w \in Wallets :
        (stake[w].owned /\ ~withdrew[w]) => stake[w].data.amount = ideal_amount[w]

\* C10: a Stake that would take amount past U64_MAX does not succeed, so in
\* every state a record's amount is the exact (unwrapped) total staked minus
\* the total withdrawn.
C10_AmountNeverWraps ==
    \A w \in Wallets :
        stake[w].owned => stake[w].data.amount = ideal_amount[w]

\* What a successful Claim of ix pays into the staker's holding account.
Payout(ix) ==
    Commit(Store, Outcome(ix)).token[Ata(ix.payer, stake_token_mint)].amount
        - token[Ata(ix.payer, stake_token_mint)].amount

\* floor(amount * elapsed * 250 / 10000), in exact arithmetic.
ExactReward(amount, elapsed) == (amount * elapsed * 250) \div 10000

\* The record a successful Claim must leave behind.
ClaimedRecord(sd) ==
    [staker |-> sd.staker, amount |-> sd.amount, remained_reward |-> 0, last_claim_time |-> now]

\* C3 (as claimed): every successful Claim resets remained_reward, keeps amount
\* and staker, sets last_claim_time to now and pays out exactly
\* old remained_reward + floor(amount * (now - old last_claim_time) * 250 / 10000).
C3_ClaimPaysExactly ==
    \A ix \in ClaimIxs :
        LET sd == stake[ix.payer].data
        IN  Outcome(ix).code = "Ok" =>
                /\ Commit(Store, Outcome(ix)).stake[ix.payer].data = ClaimedRecord(sd)
                /\ Payout(ix) = sd.remained_reward
                                + ExactReward(sd.amount, now - sd.last_claim_time)

\* C3 (amended): as above, but the payout is that sum narrowed to u64, i.e.
\* taken modulo 2^64, and it leaves the vault's holding account.
C3_ClaimPaysNarrowed ==
    \A ix \in ClaimIxs :
        LET sd == stake[ix.payer].data
            post == Commit(Store, Outcome(ix))
            due == (sd.remained_reward + ExactReward(sd.amount, now - sd.last_claim_time))
                       % U64_MOD
        IN  Outcome(ix).code = "Ok" =>
                /\ post.stake[ix.payer].data = ClaimedRecord(sd)
                /\ Payout(ix) = due
                /\ post.token[VaultHolder].amount = token[VaultHolder].amount - due

\* C3 witness: a Claim has just succeeded one tick after HALF tokens were
\* staked; the accrued reward exceeds U64_MAX and the staker holds its
\* narrowed value.
C3_Witness ==
    /\ last.op = "Claim"
    /\ last.code = "Ok"
    /\ now = TickLen
    /\ stake[alice].data = [staker |-> alice, amount |-> HALF,
                            remained_reward |-> 0, last_claim_time |-> now]
    /\ ExactReward(HALF, TickLen) > U64_MAX
    /\ token[Ata(alice, stake_token_mint)].amount = ExactReward(HALF, TickLen) % U64_MOD

\* Reward credited to w by a checkpoint ix (a successful Stake, Withdraw or
\* Claim) for the interval since epoch[w].t1: the Claim payouts since then,
\* plus the growth of remained_reward.
CreditedBy(ix) ==
    LET w == ix.payer
        post == Commit(Store, Outcome(ix))
    IN  epoch[w].paid + (IF ix.op = "Claim" THEN Payout(ix) ELSE 0)
            + post.stake[w].data.remained_reward - epoch[w].r1

Checkpoints == StakeIxs \cup WithdrawIxs \cup ClaimIxs

\* A checkpoint at t2 = now closing an interval that began at t1 < t2.
ClosesInterval(ix) ==
    /\ Outcome(ix).code = "Ok"
    /\ stake[ix.payer].owned
    /\ epoch[ix.payer].t1 < now

\* C4 (as claimed): with the amount constant at S from t1 to t2, the reward
\* credited for the interval is floor(S * (t2 - t1) * 250 / 10000), however
\* many Claims fall in between.
C4_CreditIsExact ==
    \A ix \in Checkpoints :
        ClosesInterval(ix) =>
            CreditedBy(ix) = ExactReward(stake[ix.payer].data.amount, now - epoch[ix.payer].t1)

\* Whether the accrual of checkpoint ix, or a payout before it, lost bits to
\* the narrowing to u64.
Narrows(ix) ==
    LET sd == stake[ix.payer].data
    IN  \/ epoch[ix.payer].narrowed
        \/ sd.remained_reward + ExactReward(sd.amount, now - sd.last_claim_time) > U64_MAX

\* C4 (amended): the reward credited for the interval is at most
\* floor(S * (t2 - t1) * 250 / 10000); while no accrual is narrowed to u64 it
\* falls short of that by at most the number of Claims strictly between t1
\* and t2, so it is equal when there is none.
C4_CreditIsBounded ==
    \A ix \in Checkpoints :
        LET full == ExactReward(stake[ix.payer].data.amount, now - epoch[ix.payer].t1)
        IN  ClosesInterval(ix) =>
                /\ CreditedBy(ix) <= full
                /\ ~Narrows(ix) => full - CreditedBy(ix) <= epoch[ix.payer].cuts

\* C4 witness: one unit has been staked since t1 = 0 and two Claims, each
\* after a non-empty sub-interval, have paid the floor of their own
\* sub-intervals: one less in total than the floor over the whole interval.
C4_Witness ==
    /\ last.op = "Claim"
    /\ last.code = "Ok"
    /\ epoch[alice].cuts = 2
    /\ ~epoch[alice].narrowed
    /\ stake[alice].data.last_claim_time = now
    /\ epoch[alice].paid + stake[alice].data.remained_reward - epoch[alice].r1
           = ExactReward(stake[alice].data.amount, now - epoch[alice].t1) - 1

\* The supplied addresses an instruction can get wrong, and the codes with
\* which each instruction reports an address mismatch.
AddressFaults == {"wrong_record", "wrong_vault_pda", "wrong_vault_holder", "wrong_user_holder"}
MismatchCodes(op) ==
    CASE op = "GenerateVault" -> {"0x00"}
      [] op = "Stake" -> {"0x32", "0x34"}
      [] op = "Withdraw" -> {"0x42", "0x45"}
      [] op = "Claim" -> {"0x52", "0x55", "0x56"}

AllIxs == GenerateVaultIxs \cup StakeIxs \cup WithdrawIxs \cup ClaimIxs

\* The instruction ix without its faults.
WellFormed(ix) == Instruction(ix.op, ix.payer, ix.amount, {})

\* C5: an instruction in which a supplied address (stake record, vault
\* authority, vault holding account, staker holding account) differs from the
\* derived one fails and leaves the accounts as they were; when the
\* instruction would succeed with the right address, the failure carries the
\* instruction's address-mismatch code.
C5_AddressMismatchRejected ==
    \A ix \in AllIxs :
        (ix.faults # {} /\ ix.faults \subseteq AddressFaults) =>
            /\ Outcome(ix).code # "Ok"
            /\ Commit(Store, Outcome(ix)) = Store
            /\ (Outcome(WellFormed(ix)).code = "Ok"
                    => Outcome(ix).code \in MismatchCodes(ix.op))

\* C6: Stake, Withdraw and Claim succeed only once GenerateVault has
\* succeeded, i.e. once the vault authority is owned by the program.
C6_VaultBeforeStaking ==
    (last.op \in {"Stake", "Withdraw", "Claim"} /\ last.code = "Ok") => vault_owned

\* C7: once GenerateVault has succeeded, no instruction takes the vault
\* authority away from the program, and every GenerateVault fails, having
\* written nothing and changing nothing: with 0x01 when it names the vault
\* authority (0x00 is the answer to any other address).
C7_GenerateVaultOnce ==
    vault_owned =>
        /\ \A ix \in AllIxs : Commit(Store, Outcome(ix)).vault_owned
        /\ \A ix \in GenerateVaultIxs :
              /\ Outcome(ix).code # "Ok"
              /\ Outcome(ix).store = Store
              /\ Commit(Store, Outcome(ix)) = Store
              /\ (ix.vault_pda_info = vault_pda => Outcome(ix).code = "0x01")

\* C7 witness: a second GenerateVault has just failed with 0x01 and the vault
\* authority is still owned by the program.
C7_Witness ==
    /\ last.op = "GenerateVault"
    /\ last.code = "0x01"
    /\ vault_owned

\* C8: after Stake(1000) at t = 0, a well-formed zero-amount Stake or
\* Withdraw at t = 100 succeeds and leaves amount = 1000 and
\* remained_reward = 2500; after that, a well-formed Claim at t = 200 whose
\* vault holds the 5000 to pay succeeds, pays 5000 and leaves
\* remained_reward = 0 and amount = 1000.
C8_Scenario ==
    LET sd == stake[alice].data
    IN  /\ (stake[alice].owned /\ now = 100
            /\ sd = [staker |-> alice, amount |-> 1000,
                     remained_reward |-> 0, last_claim_time |-> 0]) =>
              \A ix \in StakeIxs \cup WithdrawIxs :
                  (ix.faults = {} /\ ix.amount = 0) =>
                      /\ Outcome(ix).code = "Ok"
                      /\ Commit(Store, Outcome(ix)).stake[alice].data
                            = [staker |-> alice, amount |-> 1000,
                               remained_reward |-> 2500, last_claim_time |-> 100]
        /\ (stake[alice].owned /\ now = 200
            /\ sd = [staker |-> alice, amount |-> 1000,
                     remained_reward |-> 2500, last_claim_time |-> 100]
            /\ token[VaultHolder].amount >= 5000) =>
              \A ix \in ClaimIxs :
                  ix.faults = {} =>
                      /\ Outcome(ix).code = "Ok"
                      /\ Payout(ix) = 5000
                      /\ Commit(Store, Outcome(ix)).stake[alice].data
                            = [staker |-> alice, amount |-> 1000,
                               remained_reward |-> 0, last_claim_time |-> 200]

\* C8 witness: the scenario has run to its end: the checkpoint at t = 100 left
\* remained_reward = 2500 and the Claim at t = 200 has just paid 5000.
C8_Witness ==
    /\ last.op = "Claim"
    /\ last.code = "Ok"
    /\ now = 200
    /\ epoch[alice] = [t1 |-> 100, r1 |-> 2500, paid |-> 5000, cuts |-> 1, narrowed |-> FALSE]
    /\ stake[alice].data = [staker |-> alice, amount |-> 1000,
                            remained_reward |-> 0, last_claim_time |-> 200]
    /\ token[Ata(alice, stake_token_mint)].amount = 5000

CallerIxs(payer) ==
    UNION {{Instruction(op, payer, amount, f) :
                amount \in StakeAmounts(payer) \cup WithdrawAmounts(payer),
                f \in StakerFaultSets} : op \in {"Stake", "Withdraw", "Claim"}}
AnyCallerIxs == GenerateVaultIxs \cup UNION {CallerIxs(payer) : payer \in Wallets}

\* C11: an initialized stake record's staker is the wallet whose key seeded the
\* record's address, and no Stake, Withdraw, Claim or GenerateVault by any
\* caller, whether it succeeds or fails, changes the staker of an initialized
\* record.
C11_StakerIsSeedForever ==
    /\ \A w \in Wallets : stake[w].owned => stake[w].data.staker = w
    /\ \A ix \in AnyCallerIxs : \A post \in {Commit(Store, Outcome(ix))} :
          \A w \in Wallets :
              stake[w].owned =>
                  /\ post.stake[w].owned
                  /\ post.stake[w].data.staker = stake[w].data.staker

\* C11 witness: the record was initialized by a Stake, and a later Claim at a
\* later time has succeeded on it; its staker is still the seeding wallet.
C11_Witness ==
    /\ last.op = "Claim"
    /\ last.code = "Ok"
    /\ stake[alice].owned
    /\ stake[alice].data.staker = alice
    /\ stake[alice].data.last_claim_time > epoch[alice].t1

\* The wallet whose stake record the instruction names in stake_data_info.
RecordWallet(ix) == CHOOSE w \in Wallets : ix.stake_data_info = StakePda(w)

\* The code with which Withdraw and Claim refuse a record that the program
\* does not own.
NotInitializedCode(op) == IF op = "Withdraw" THEN "0x43" ELSE "0x53"

\* C12: a Withdraw or Claim naming a stake record that the program does not
\* own fails, having written nothing: the record stays Uninitialized and every
\* balance is unchanged; the code is 0x43 (Withdraw) or 0x53 (Claim) when the
\* caller signed and the record is the caller's own.  A record goes from
\* Uninitialized to Active only by a successful Stake of its own wallet.
C12_UninitializedRecordRefused ==
    \A ix \in AnyCallerIxs : \A r \in {Outcome(ix)} :
        /\ (ix.op \in {"Withdraw", "Claim"} /\ ~stake[RecordWallet(ix)].owned) =>
              /\ r.code # "Ok"
              /\ r.store = Store
              /\ Commit(Store, r) = Store
              /\ (ix.is_signer /\ RecordWallet(ix) = ix.payer)
                    => r.code = NotInitializedCode(ix.op)
        /\ \A w \in Wallets :
              (~stake[w].owned /\ Commit(Store, r).stake[w].owned) =>
                  (ix.op = "Stake" /\ ix.payer = w /\ r.code = "Ok")

\* C12 witness: a Claim has just failed with 0x53 on a record that is still
\* Uninitialized, in a state where the vault holds tokens it could have paid.
C12_Witness ==
    /\ last.op = "Claim"
    /\ last.code = "0x53"
    /\ ~stake[alice].owned
    /\ token[VaultHolder].amount > 0

\* C13: within one instruction two different violated preconditions never
\* produce the same error code: of two instructions of the same operation,
\* payer and amount that would succeed but for one fault each, a different
\* fault in each, that both fail in the account validation, the codes differ.
C13_DistinctCodes ==
    \A ix1, ix2 \in Checkpoints :
        (/\ ix1.op = ix2.op /\ ix1.payer = ix2.payer /\ ix1.amount = ix2.amount
         /\ ix1.faults # ix2.faults
         /\ ix1.faults # {} /\ ix1.faults \subseteq ValidatorFaults
         /\ ix2.faults # {} /\ ix2.faults \subseteq ValidatorFaults
         /\ Outcome(WellFormed(ix1)).code = "Ok")
            => Outcome(ix1).code # Outcome(ix2).code

\* The change an instruction's committed result makes to the balance of a
\* holding account.
BalanceChange(post, holder) == post.token[holder].amount - token[holder].amount

\* What a successful instruction moves from the staker's holding account
\* into the vault's (negative: out of the vault's, into the staker's).
Deposited(ix) ==
    CASE ix.op = "Stake" -> ix.amount
      [] ix.op = "Withdraw" -> 0 - ix.amount
      [] ix.op = "Claim" -> 0 - RewardAmount(stake[ix.payer].data, now)
      [] ix.op = "GenerateVault" -> 0

\* C14: the balance of the vault's holding account goes down only by a
\* successful Withdraw (by exactly the requested amount) or a successful Claim
\* (by exactly reward_amount), and what leaves it arrives in the caller's own
\* holding account; a successful Stake(x) moves exactly x from the staker's
\* holding account into the vault's; GenerateVault and every failed
\* instruction change no balance, and no instruction changes the balance of
\* any other holding account.
C14_VaultCustody ==
    \A ix \in AnyCallerIxs : \A r \in {Outcome(ix)} : \A post \in {Commit(Store, r)} :
        LET moved == IF r.code = "Ok" THEN Deposited(ix) ELSE 0
            own == Ata(ix.payer, stake_token_mint)
        IN  /\ BalanceChange(post, VaultHolder) = moved
            /\ BalanceChange(post, own) = 0 - moved
            /\ \A h \in Holders \ {VaultHolder, own} : BalanceChange(post, h) = 0
            /\ BalanceChange(post, VaultHolder) < 0
                  => (r.code = "Ok" /\ ix.op \in {"Withdraw", "Claim"})

\* C14 witness: the staker staked 1000 into a vault holding RewardPool, and a
\* Withdraw of the 1000 has just succeeded: the staker holds them again and the
\* vault holds RewardPool, with the reward of the staking time still owed.
C14_Witness ==
    /\ last.op = "Withdraw"
    /\ last.code = "Ok"
    /\ withdrew[alice]
    /\ stake[alice].data.amount = 0
    /\ stake[alice].data.remained_reward > 0
    /\ token[Ata(alice, stake_token_mint)].amount = 1000
    /\ token[VaultHolder].amount = RewardPool

\* The codes of the authorization checks of Stake, Withdraw and Claim, and of
\* their record-address check.
NotSignerCode(op) ==
    CASE op = "Stake" -> "0x31" [] op = "Withdraw" -> "0x41" [] op = "Claim" -> "0x51"
NotStakerCode(op) ==
    CASE op = "Stake" -> "0x36" [] op = "Withdraw" -> "0x47" [] op = "Claim" -> "0x58"
RecordMismatchCode(op) ==
    CASE op = "Stake" -> "0x32" [] op = "Withdraw" -> "0x42" [] op = "Claim" -> "0x52"

\* A signed Stake, Withdraw or Claim naming an Active record whose staker is
\* not the caller.
NotTheStaker(ix) ==
    /\ ix.op \in {"Stake", "Withdraw", "Claim"}
    /\ ix.is_signer
    /\ stake[RecordWallet(ix)].owned
    /\ stake[RecordWallet(ix)].data.staker # ix.payer

\* A GenerateVault naming the vault authority, not yet owned by the program,
\* by a caller who is not the administrator or did not sign.
NotTheAdmin(ix) ==
    /\ ix.op = "GenerateVault"
    /\ ix.vault_pda_info = vault_pda
    /\ ~vault_owned
    /\ (ix.payer # admin \/ ~ix.is_signer)

\* An instruction that fails with the given code, having written nothing.
Refused(ix, code) ==
    \A r \in {Outcome(ix)} : r.code = code /\ r.store = Store /\ Commit(Store, r) = Store

\* C15 (as claimed): Stake, Withdraw and Claim fail with no state change, with
\* 0x31/0x41/0x51 when the caller did not sign and with 0x36/0x47/0x58 when the
\* caller is not the staker of the Active record; GenerateVault by a caller who
\* is not the administrator or did not sign fails with 0x02 and the vault stays
\* uninitialized.
C15_UnauthorizedCodes ==
    \A ix \in AnyCallerIxs :
        /\ (ix.op # "GenerateVault" /\ ~ix.is_signer) => Refused(ix, NotSignerCode(ix.op))
        /\ NotTheStaker(ix) => Refused(ix, NotStakerCode(ix.op))
        /\ NotTheAdmin(ix) =>
              (Refused(ix, "0x02") /\ ~Commit(Store, Outcome(ix)).vault_owned)

\* C15 (amended): as above, except that the caller who is not the staker of
\* the Active record is refused with the record-address code 0x32/0x42/0x52:
\* the record's address is derived from the caller's key and compared first.
C15_UnauthorizedRefused ==
    \A ix \in AnyCallerIxs :
        /\ (ix.op # "GenerateVault" /\ ~ix.is_signer) => Refused(ix, NotSignerCode(ix.op))
        /\ NotTheStaker(ix) => Refused(ix, RecordMismatchCode(ix.op))
        /\ NotTheAdmin(ix) =>
              (Refused(ix, "0x02") /\ ~Commit(Store, Outcome(ix)).vault_owned)

\* C15 witness: the staker's record is Active with a positive amount, an
\* unsigned Withdraw has just been refused with 0x41, and the administrator's
\* signed Withdraw naming that record is refused with 0x42.
C15_Witness ==
    /\ last.op = "Withdraw"
    /\ last.code = "0x41"
    /\ stake[alice].owned
    /\ stake[alice].data.amount > 0
    /\ \E ix \in CallerIxs(admin) :
          /\ ix.op = "Withdraw"
          /\ NotTheStaker(ix)
          /\ RecordWallet(ix) = alice
          /\ Refused(ix, "0x42")

\* Stake, Withdraw and Claim on another token type throughout: the mint and
\* both holding accounts, each the associated token address of that mint.
OtherToken(ix) ==
    [ix EXCEPT !.mint_info = other_mint,
               !.vault_pda_mint_holder_info = Ata(vault_pda, other_mint),
               !.vault_mint_holder_info = Ata(ix.payer, other_mint),
               !.faults = {"other_token"}]
OtherTokenIxs == {OtherToken(ix) : ix \in {c \in Checkpoints : c.faults = {}}}

\* The code with which each instruction refuses a token type that is not the
\* configured one.
WrongTokenCode(op) ==
    CASE op = "Stake" -> "0x33" [] op = "Withdraw" -> "0x44" [] op = "Claim" -> "0x54"

\* The checks that precede the token-type check pass: the caller signed, the
\* record is the caller's and, for Withdraw and Claim, is initialized.
ReachesTokenCheck(ix) ==
    /\ ix.is_signer
    /\ ix.stake_data_info = StakePda(ix.payer)
    /\ (ix.op = "Stake" \/ stake[ix.payer].owned)

\* C16: a Stake, Withdraw or Claim whose supplied token type is not the
\* configured stake (reward) token fails, having written nothing, with 0x33,
\* 0x44, 0x54 when the checks that precede the token-type check pass; and no
\* instruction changes the balance of a holding account of another token type.
C16_OnlyConfiguredToken ==
    \A ix \in AnyCallerIxs \cup OtherTokenIxs : \A r \in {Outcome(ix)} :
        /\ (ix.op # "GenerateVault" /\ ix.mint_info # stake_token_mint) =>
              /\ r.code # "Ok"
              /\ r.store = Store
              /\ Commit(Store, r) = Store
              /\ ReachesTokenCheck(ix) => r.code = WrongTokenCode(ix.op)
        /\ \A w \in Wallets \cup {vault_pda} :
              BalanceChange(Commit(Store, r), Ata(w, other_mint)) = 0

\* C16 witness: on an Active record with a positive amount a Withdraw naming
\* another token type has just been refused with 0x44, and the staker and the
\* vault do hold tokens of that other type.
C16_Witness ==
    /\ last.op = "Withdraw"
    /\ last.code = "0x44"
    /\ stake[alice].owned
    /\ stake[alice].data.amount > 0
    /\ token[Ata(alice, other_mint)].amount > 0
    /\ token[Ata(vault_pda, other_mint)].amount > 0

\* C17 (as claimed): every successful Stake or Withdraw on an Active record
\* adds to remained_reward exactly
\* floor(amount_before * (now - old last_claim_time) * 250 / 10000); the first
\* Stake sets remained_reward = 0; and every successful Stake, Withdraw and
\* Claim leaves last_claim_time = now.
C17_AccrualAddsExactly ==
    \A ix \in Checkpoints : \A r \in {Outcome(ix)} :
        LET sd == stake[ix.payer].data
            new == Commit(Store, r).stake[ix.payer].data
        IN  r.code = "Ok" =>
                /\ new.last_claim_time = now
                /\ (ix.op = "Stake" /\ ~stake[ix.payer].owned) => new.remained_reward = 0
                /\ (ix.op # "Claim" /\ stake[ix.payer].owned) =>
                      new.remained_reward
                          = sd.remained_reward + ExactReward(sd.amount, now - sd.last_claim_time)

\* C17 (amended): as above, but the new remained_reward is that sum narrowed
\* to u64, i.e. taken modulo 2^64: the exact sum whenever it fits in a u64.
C17_AccrualAddsNarrowed ==
    \A ix \in Checkpoints : \A r \in {Outcome(ix)} :
        LET sd == stake[ix.payer].data
            new == Commit(Store, r).stake[ix.payer].data
            sum == sd.remained_reward + ExactReward(sd.amount, now - sd.last_claim_time)
        IN  r.code = "Ok" =>
                /\ new.last_claim_time = now
                /\ (ix.op = "Stake" /\ ~stake[ix.payer].owned) => new.remained_reward = 0
                /\ (ix.op # "Claim" /\ stake[ix.payer].owned) =>
                      /\ new.remained_reward = sum % U64_MOD
                      /\ sum <= U64_MAX => new.remained_reward = sum

\* C17 witness: HALF tokens were staked at t = 0 and a Stake or Withdraw one
\* tick later has just accrued a reward that exceeds U64_MAX: the record holds
\* its narrowed value.
C17_Witness ==
    /\ last.op \in {"Stake", "Withdraw"}
    /\ last.code = "Ok"
    /\ now = TickLen
    /\ ExactReward(HALF, TickLen) > U64_MAX
    /\ stake[alice].data.last_claim_time = now
    /\ stake[alice].data.remained_reward = ExactReward(HALF, TickLen) % U64_MOD
    /\ epoch[alice].t1 = now

\* C18: no double counting.  For every staker the reward credited up to and
\* including any checkpoint (all Claim payouts plus the current
\* remained_reward) never exceeds floor(sum over the intervals up to that
\* checkpoint of amount_held * length * 250 / 10000), i.e. 10000 times the
\* credit never exceeds the sum of amount_held * length * 250; and
\* a successful Stake, Withdraw or Claim at the clock time of the previous
\* checkpoint accrues nothing: remained_reward is unchanged by Stake and
\* Withdraw, and Claim pays remained_reward and no more.
C18_NoDoubleCounting ==
    /\ \A w \in Wallets : uncredited[w] >= 0
    /\ \A ix \in Checkpoints : \A r \in {Outcome(ix)} :
          LET sd == stake[ix.payer].data
              post == Commit(Store, r)
          IN  /\ UncreditedAfter(ix, r.code = "Ok", post)[ix.payer] >= 0
              /\ (r.code = "Ok" /\ stake[ix.payer].owned /\ sd.last_claim_time = now) =>
                    IF ix.op = "Claim"
                    THEN BalanceChange(post, Ata(ix.payer, stake_token_mint))
                             = sd.remained_reward
                    ELSE post.stake[ix.payer].data.remained_reward = sd.remained_reward

\* C18 witness: after a checkpoint that left a reward to claim, a Claim has
\* paid it at a later time, and a second Claim at that same time has just
\* paid nothing; part of what was earned was lost to rounding, none was
\* credited twice.
C18_Witness ==
    /\ last.op = "Claim"
    /\ last.code = "Ok"
    /\ last.dirty = FALSE
    /\ epoch[alice].cuts >= 1
    /\ epoch[alice].r1 > 0
    /\ epoch[alice].paid > epoch[alice].r1
    /\ uncredited[alice] > 0
    /\ stake[alice].data.last_claim_time = now

\* C19 (as claimed): across any successful Stake or Withdraw on an Active
\* record remained_reward never decreases; only a successful Claim lowers it.
C19_RemainedNeverDecreases ==
    \A ix \in AnyCallerIxs : \A post \in {Commit(Store, Outcome(ix))} :
        \A w \in Wallets :
            post.stake[w].data.remained_reward < stake[w].data.remained_reward
                => (ix.op = "Claim" /\ ix.payer = w /\ Outcome(ix).code = "Ok")

\* The exact sum a Stake or Withdraw of ix.payer accrues now, before it is
\* narrowed to u64.
AccruedSum(ix) ==
    stake[ix.payer].data.remained_reward
        + ExactReward(stake[ix.payer].data.amount, now - stake[ix.payer].data.last_claim_time)

\* C19 (amended): a successful Stake or Withdraw on an Active record leaves
\* remained_reward = (old remained_reward + reward) narrowed to u64: not lower
\* than before while that sum fits in a u64, and lower than the sum by a
\* multiple of 2^64 (so possibly lower than before) when it does not.  Apart
\* from such a narrowing only a successful Claim lowers remained_reward.
C19_RemainedCarriedUnlessNarrowed ==
    \A ix \in AnyCallerIxs : \A r \in {Outcome(ix)} : \A post \in {Commit(Store, r)} :
        /\ (r.code = "Ok" /\ ix.op \in {"Stake", "Withdraw"} /\ stake[ix.payer].owned) =>
              /\ post.stake[ix.payer].data.remained_reward = AccruedSum(ix) % U64_MOD
              /\ AccruedSum(ix) <= U64_MAX =>
                    post.stake[ix.payer].data.remained_reward
                        >= stake[ix.payer].data.remained_reward
        /\ \A w \in Wallets :
              post.stake[w].data.remained_reward < stake[w].data.remained_reward =>
                  /\ ix.payer = w
                  /\ r.code = "Ok"
                  /\ (ix.op = "Claim" \/ AccruedSum(ix) > U64_MAX)

\* C19 witness: 3000 tokens were staked at t = 0, a checkpoint one tick later
\* left remained_reward = floor(3000 * TickLen * 250 / 10000), and a Stake or
\* Withdraw another tick later has just accrued as much again: the sum exceeds
\* U64_MAX and the narrowed value stored is lower than the value before.
C19_Witness ==
    /\ last.op \in {"Stake", "Withdraw"}
    /\ last.code = "Ok"
    /\ now = 2 * TickLen
    /\ stake[alice].data.last_claim_time = now
    /\ 2 * ExactReward(3000, TickLen) > U64_MAX
    /\ stake[alice].data.remained_reward = (2 * ExactReward(3000, TickLen)) % U64_MOD
    /\ stake[alice].data.remained_reward < ExactReward(3000, TickLen)

\* The sum of the amount fields of the stake records of the wallets in W.
RECURSIVE TotalStaked(_)
TotalStaked(W) ==
    IF W = {} THEN 0
    ELSE LET w == CHOOSE x \in W : TRUE
         IN  (IF stake[w].owned THEN stake[w].data.amount ELSE 0) + TotalStaked(W \ {w})

\* C20: vault solvency.  In every state the vault's holding account holds at
\* least the sum of the amounts of all stake records, so a well-formed
\* Withdraw of a staker's full amount succeeds, whatever Claims were made.
C20_VaultSolvent ==
    /\ token[VaultHolder].amount >= TotalStaked(Wallets)
    /\ \A ix \in WithdrawIxs :
          (ix.faults = {} /\ stake[ix.payer].owned
           /\ ix.amount = stake[ix.payer].data.amount)
              => Outcome(ix).code = "Ok"

\* ------------------------------------------------------------ two stakers
\* A second specification in which both wallets stake: the second staker is
\* the wallet whose key is the administrator's, nothing in Stake, Withdraw or
\* Claim telling it from any other.  Before the program first runs the first
\* staker holds 1000 tokens, the second holds 1, and the vault's holding
\* account does not exist.  Instructions are well formed.
PairHeld(w) == IF w = alice THEN 1000 ELSE 1

InitPairToken ==
    [h \in Holders |->
        IF h = VaultHolder THEN [init |-> FALSE, amount |-> 0]
        ELSE IF \E w \in Wallets : h = Ata(w, stake_token_mint)
        THEN [init |-> TRUE, amount |-> PairHeld(CHOOSE w \in Wallets : h = Ata(w, stake_token_mint))]
        ELSE [init |-> TRUE, amount |-> 0]]

InitPair ==
    /\ vault_owned = FALSE
    /\ stake = [w \in Wallets |-> [owned |-> FALSE, data |-> NoData]]
    /\ token = InitPairToken
    /\ now = 0
    /\ overflow_checks \in BOOLEAN
    /\ ideal_amount = [w \in Wallets |-> 0]
    /\ withdrew = [w \in Wallets |-> FALSE]
    /\ epoch = [w \in Wallets |-> NoEpoch]
    /\ uncredited = [w \in Wallets |-> 0]
    /\ last = NoInstruction

\* The well-formed instructions of either wallet: Stake of all the tokens it
\* holds, Withdraw of all it has staked, Claim.
PairIxs ==
    UNION {{Instruction("Stake", w, token[Ata(w, stake_token_mint)].amount, {}),
            Instruction("Withdraw", w, stake[w].data.amount, {}),
            Instruction("Claim", w, 0, {})} : w \in Wallets}

PairStake == \E ix \in PairIxs : ix.op = "Stake" /\ Execute(ix)

PairWithdraw == \E ix \in PairIxs : ix.op = "Withdraw" /\ Execute(ix)

PairClaim == \E ix \in PairIxs : ix.op = "Claim" /\ Execute(ix)

NextPair == PairStake \/ PairWithdraw \/ PairClaim \/ Tick

SpecPair == InitPair /\ [][NextPair]_vars

\* The accounts after ix has run on the accounts s at the current clock time,
\* committed or rolled back.
Exec(s, ix) == Commit(s, process_instruction(ix, s, now, overflow_checks))

\* C21: record isolation.  An instruction of one staker never changes the
\* stake record of the other, and an instruction of each staker, both executed
\* at the current clock time, leave the same stake records in either order.
C21_RecordIsolation ==
    /\ \A ix \in PairIxs :
          Exec(Store, ix).stake[OtherWallet(ix.payer)] = stake[OtherWallet(ix.payer)]
    /\ \A ixA \in PairIxs : \A ixB \in PairIxs :
          ixA.payer # ixB.payer =>
              Exec(Exec(Store, ixA), ixB).stake = Exec(Exec(Store, ixB), ixA).stake
====
